---------------------------- MODULE Spec2Model ----------------------------
(***************************************************************************)
(* Model of stock_app_full.py: the in-memory TTL cache, the three          *)
(* best-effort providers (NSE price, yfinance, Screener.in), the merge and *)
(* valuation logic of the /query route and the /search_api autocomplete.   *)
(*                                                                         *)
(* Conventions.                                                            *)
(*   - Python's None is the empty tuple <<>>; a present value v is <<v>>.  *)
(*   - A Python dict is a TLA+ function whose DOMAIN is the set of keys    *)
(*     the dict holds (d.get(k) is DictGet(d, k)).                         *)
(*   - Time is in whole seconds (datetime.utcnow()).                       *)
(*   - Every number (P/E multiples, growth rates, eps, prices, the        *)
(*     valuation's results) is a fixed-point integer in ten-thousandths:  *)
(*     15.004 is 150040, the growth 0.10 is 1000.                          *)
(*     Arithmetic is exact (the floats' rounding error is not modelled).   *)
(***************************************************************************)
EXTENDS Integers, Sequences, FiniteSets, TLC

VARIABLES
    CACHE,        \* the module-level dict CACHE: key -> <<value, expires>>
    now,          \* datetime.utcnow(), in seconds
    lastSet,      \* history: per key, the latest cache_set (value, time, ttl, count)
    lastGet,      \* history: the latest cache_get (key, result, time)
    pc,           \* position of the /query request being served
    ticker,       \* the request's normalised ticker
    nse,          \* the request's local `nse`
    yf,           \* the request's local `yf`
    sc,           \* the request's local `sc`
    result,       \* what the request rendered
    calls,        \* history: the provider fetch functions called, in order
    outbound,     \* history: the outbound requests issued, in order
    fp,           \* a direct call of determine_fair_pe: its arguments and its result
    th,           \* concurrent requests: each thread's position and locals
    NSE_TICKERS,  \* the ticker directory loaded at start-up
    search        \* the latest /search_api call: its query and its response

vars == <<CACHE, now, lastSet, lastGet, pc, ticker, nse, yf, sc, result,
          calls, outbound, fp, th, NSE_TICKERS, search>>

cacheVars   == <<CACHE, now, lastSet, lastGet>>
requestVars == <<pc, ticker, nse, yf, sc, result, calls, outbound>>
otherVars   == <<fp, th, NSE_TICKERS, search>>

----------------------------------------------------------------------------
(* Python values *)

None == <<>>

Some(v) == <<v>>

DictGet(d, k) == IF k \in DOMAIN d THEN d[k] ELSE None

DictPut(d, k, v) == [x \in DOMAIN d \cup {k} |-> IF x = k THEN v ELSE d[x]]

DictDel(d, k) == [x \in DOMAIN d \ {k} |-> d[x]]

EmptyDict == [x \in {} |-> None]

Min(a, b) == IF a <= b THEN a ELSE b

----------------------------------------------------------------------------
(* Bounds of the model *)

\* The clock advances in steps of TickStep seconds, up to MaxTime.
TickStep == 10

MaxTime == 40

\* cache_set calls counted per key in the cache's own specification.
MaxSets == 2

\* The longest ticker list file read at start-up.
MaxLines == 40

----------------------------------------------------------------------------
(* The cache: CACHE, cache_get, cache_set *)

CACHE_TTL == 60

\* Mutant: the entry is dropped as soon as the clock reaches its expiry.
expired_at_expiry(t, expires) == t >= expires

\* `datetime.utcnow() > expires`
expired(t, expires) == t > expires

\* What cache_get(key) returns at time t in cache C.
cache_get_ret(C, key, t) ==
    LET row == DictGet(C, key) IN
    IF row = None THEN None
    ELSE IF expired(t, row[2]) THEN None
    ELSE Some(row[1])

\* The cache that cache_get(key) leaves behind (the lazy eviction).
cache_get_CACHE(C, key, t) ==
    LET row == DictGet(C, key) IN
    IF row = None THEN C
    ELSE IF expired(t, row[2]) THEN DictDel(C, key)
    ELSE C

\* The cache that cache_set(key, value, ttl) leaves behind.
cache_set(C, key, value, ttl, t) == DictPut(C, key, <<value, t + ttl>>)

----------------------------------------------------------------------------
(* The cache on its own: any sequence of cache_set, cache_get and time     *)

\* Strings the program takes apart (tickers, queries, scraped text) are
\* sequences of one-character strings.
CacheKeys == {<<"yf", <<"T", ".", "N", "S">>>>, <<"sc", <<"T", ".", "N", "S">>>>}

CacheValues == {"a", "b"}

TTLInputs == {0, TickStep, 2 * TickStep, TickStep + 2}

IdleRequest ==
    /\ pc = "idle" /\ ticker = <<>> /\ nse = None /\ yf = None /\ sc = None
    /\ result = None /\ calls = <<>> /\ outbound = <<>>

IdleOthers ==
    /\ fp = None /\ th = None /\ NSE_TICKERS = <<>> /\ search = None

InitCache ==
    /\ CACHE = EmptyDict
    /\ now = 0
    /\ lastSet = [k \in CacheKeys |-> None]
    /\ lastGet = None
    /\ IdleRequest
    /\ IdleOthers

Tick ==
    /\ now + TickStep <= MaxTime
    /\ now' = now + TickStep
    /\ UNCHANGED <<CACHE, lastSet, lastGet, requestVars, otherVars>>

SetCount(k) == IF lastSet[k] = None THEN 0 ELSE lastSet[k].n

CacheSetOp ==
    \E k \in CacheKeys, v \in CacheValues, ttl \in TTLInputs \cup {CACHE_TTL} :
        /\ SetCount(k) < MaxSets
        /\ CACHE' = cache_set(CACHE, k, v, ttl, now)
        /\ lastSet' = [lastSet EXCEPT ![k] =
                          [val |-> v, at |-> now, ttl |-> ttl, n |-> SetCount(k) + 1]]
        /\ lastGet' = None
        /\ UNCHANGED <<now, requestVars, otherVars>>

CacheGetOp ==
    \E k \in CacheKeys :
        /\ CACHE' = cache_get_CACHE(CACHE, k, now)
        /\ lastGet' = [key |-> k, ret |-> cache_get_ret(CACHE, k, now), at |-> now]
        /\ UNCHANGED <<now, lastSet, requestVars, otherVars>>

NextCache == CacheSetOp \/ CacheGetOp \/ Tick

SpecCache == InitCache /\ [][NextCache]_vars

\* C1 (as stated): after cache_set(key, v, ttl) at time t and no later
\* cache_set for the key, cache_get(key) returns v at every time strictly
\* before t + ttl, and at every time at or after t + ttl it returns absent and
\* the entry is gone.
C1_Original ==
    (lastGet # None /\ lastSet[lastGet.key] # None) =>
        LET s == lastSet[lastGet.key] IN
        IF lastGet.at < s.at + s.ttl
        THEN lastGet.ret = Some(s.val)
        ELSE lastGet.ret = None /\ lastGet.key \notin DOMAIN CACHE

\* C1 (amended): after cache_set(key, v, ttl) at time t and no later cache_set
\* for the key, cache_get(key) returns v at every time up to and including
\* t + ttl and leaves the entry in place; at every time strictly after t + ttl
\* it returns absent and the entry is gone.  The latest cache_set decides both
\* the value and the expiry.
C1_Amended ==
    (lastGet # None /\ lastSet[lastGet.key] # None) =>
        LET s == lastSet[lastGet.key] IN
        IF lastGet.at <= s.at + s.ttl
        THEN /\ lastGet.ret = Some(s.val)
             /\ DictGet(CACHE, lastGet.key) = <<s.val, s.at + s.ttl>>
        ELSE lastGet.ret = None /\ lastGet.key \notin DOMAIN CACHE

\* A cache_get issued exactly at the expiry of an entry written by the second
\* cache_set on its key, which returned that second value.
C1_Witness ==
    /\ lastGet # None
    /\ lastSet[lastGet.key] # None
    /\ lastSet[lastGet.key].n = 2
    /\ lastSet[lastGet.key].ttl > 0
    /\ lastGet.at = lastSet[lastGet.key].at + lastSet[lastGet.key].ttl
    /\ lastGet.ret = Some(lastSet[lastGet.key].val)


----------------------------------------------------------------------------
(* Numbers.  Every number is a fixed-point integer in ten-thousandths:     *)
(* 15.004 is 150040, the growth 0.10 is 1000, 1386 rupees is 13860000.     *)

One == 100 * 100

Fix(n) == n * One

Digits == {"0", "1", "2", "3", "4", "5", "6", "7", "8", "9"}

DigitValue(c) ==
    CASE c = "0" -> 0 [] c = "1" -> 1 [] c = "2" -> 2 [] c = "3" -> 3
      [] c = "4" -> 4 [] c = "5" -> 5 [] c = "6" -> 6 [] c = "7" -> 7
      [] c = "8" -> 8 [] c = "9" -> 9

RECURSIVE RemoveAll(_, _)
\* str.replace(c, '') for each mark c of `marks`
RemoveAll(s, marks) ==
    IF s = <<>> THEN <<>>
    ELSE IF Head(s) \in marks THEN RemoveAll(Tail(s), marks)
    ELSE <<Head(s)>> \o RemoveAll(Tail(s), marks)

Whitespace == {" ", "\t", "\n"}

RECURSIVE LStrip(_)
LStrip(s) == IF s # <<>> /\ Head(s) \in Whitespace THEN LStrip(Tail(s)) ELSE s

RECURSIVE RStrip(_)
RStrip(s) ==
    IF s # <<>> /\ s[Len(s)] \in Whitespace THEN RStrip(SubSeq(s, 1, Len(s) - 1)) ELSE s

\* str.strip()
Strip(s) == RStrip(LStrip(s))

RECURSIVE FirstToken(_)
\* re.split(r'\s+', s)[0]
FirstToken(s) ==
    IF s = <<>> \/ Head(s) \in Whitespace THEN <<>>
    ELSE <<Head(s)>> \o FirstToken(Tail(s))

RECURSIVE DigitsValue(_, _)
\* The value of a digit string, most significant digit first.
DigitsValue(s, acc) ==
    IF s = <<>> THEN acc ELSE DigitsValue(Tail(s), 10 * acc + DigitValue(Head(s)))

RECURSIVE IndexOf(_, _, _)
IndexOf(s, c, i) ==
    IF i > Len(s) THEN 0 ELSE IF s[i] = c THEN i ELSE IndexOf(s, c, i + 1)

AllDigits(s) == \A i \in 1..Len(s) : s[i] \in Digits

RECURSIVE Pow10(_)
Pow10(n) == IF n <= 0 THEN 1 ELSE 10 * Pow10(n - 1)

\* float(token) for the tokens of the model's alphabet: an optional sign,
\* digits, an optional point and up to four decimals.  Anything else raises
\* ValueError, which to_float turns into None.
ParseFloat(token) ==
    LET neg  == token # <<>> /\ Head(token) = "-"
        body == IF neg THEN Tail(token) ELSE token
        dot  == IndexOf(body, ".", 1)
        ip   == IF dot = 0 THEN body ELSE SubSeq(body, 1, dot - 1)
        fr   == IF dot = 0 THEN <<>> ELSE SubSeq(body, dot + 1, Len(body))
        ok   == /\ AllDigits(ip) /\ AllDigits(fr)
                /\ Len(ip) + Len(fr) > 0 /\ Len(fr) <= 4
        mag  == Fix(DigitsValue(ip, 0)) + DigitsValue(fr, 0) * Pow10(4 - Len(fr))
    IN  IF ok THEN Some(IF neg THEN 0 - mag ELSE mag) ELSE None

\* to_float(x): x is None, a number [num |-> n] or a text [txt |-> symbols]
\* (the marks "₹" and "Rs." are one symbol each).
to_float(x) ==
    IF x = None THEN None
    ELSE IF "num" \in DOMAIN x[1] THEN Some(x[1].num)
    ELSE ParseFloat(FirstToken(Strip(RemoveAll(x[1].txt, {",", "₹", "Rs."}))))

Num(n) == Some([num |-> n])

Txt(s) == Some([txt |-> s])

----------------------------------------------------------------------------
(* determine_fair_pe *)

DEFAULT_GROWTH == 800

GROWTH_LOW == 500

GROWTH_MID == 1500

SAN_LOW == 2

SAN_MID == 3

SAN_HIGH == 4

CAP_LOW == 12

CAP_MID == 18

CAP_HIGH == 25

\* Python truthiness of an optional number: None and 0 are false.
Truthy(x) == x # None /\ x[1] # 0

\* round(float(x), 2): to the nearest hundredth, an exact tie to the even one.
Round2(x) ==
    LET q == x \div 100
        r == x % 100
    IN  IF r < 50 THEN q * 100
        ELSE IF r > 50 THEN (q + 1) * 100
        ELSE IF q % 2 = 0 THEN q * 100 ELSE (q + 1) * 100

GrowthOf(growth) == IF growth = None THEN DEFAULT_GROWTH ELSE growth[1]

San(g) ==
    IF g < GROWTH_LOW THEN Fix(SAN_LOW)
    ELSE IF g < GROWTH_MID THEN Fix(SAN_MID) ELSE Fix(SAN_HIGH)

Cap(g) ==
    IF g < GROWTH_LOW THEN Fix(CAP_LOW)
    ELSE IF g < GROWTH_MID THEN Fix(CAP_MID) ELSE Fix(CAP_HIGH)

Base(hist_pe, g) == (IF Truthy(hist_pe) THEN hist_pe[1] ELSE 0) + San(g)

\* `industry_pe if industry_pe else base`
IndustryOrBase(industry_pe, base) == IF Truthy(industry_pe) THEN industry_pe[1] ELSE base

determine_fair_pe(industry_pe, hist_pe, growth) ==
    LET g      == GrowthOf(growth)
        base   == Base(hist_pe, g)
        chosen == Min(IndustryOrBase(industry_pe, base), base)
        fair   == Min(chosen, Cap(g))
    IN  Round2(fair)


----------------------------------------------------------------------------
(* determine_fair_pe on its own: every argument triple of the bounded sets *)

IndustryPeInputs == {None, Some(0), Some(Fix(10)), Some(125000), Some(Fix(40))}

HistPeInputs == {None, Some(0), Some(Fix(15)), Some(150040), Some(Fix(30))}

GrowthInputs == {None, Some(200), Some(GROWTH_LOW), Some(1000), Some(GROWTH_MID), Some(2000)}

InitFairPe ==
    /\ CACHE = EmptyDict /\ now = 0 /\ lastSet = None /\ lastGet = None
    /\ IdleRequest
    /\ th = None /\ NSE_TICKERS = <<>> /\ search = None
    /\ \E i \in IndustryPeInputs, h \in HistPeInputs, g \in GrowthInputs :
          fp = [industry_pe |-> i, hist_pe |-> h, growth |-> g, ret |-> None]

FairPeCall ==
    /\ fp # None /\ fp.ret = None
    /\ fp' = [fp EXCEPT !.ret = Some(determine_fair_pe(fp.industry_pe, fp.hist_pe, fp.growth))]
    /\ UNCHANGED <<cacheVars, requestVars, th, NSE_TICKERS, search>>

NextFairPe == FairPeCall

SpecFairPe == InitFairPe /\ [][NextFairPe]_vars

\* C3: for every trailing_pe, every industry_pe (present, the value 0
\* included, or absent) and every growth, determine_fair_pe returns
\* min(min(industry_pe if present else base, base), cap), to the two decimals
\* the result is rounded to, where base = (trailing_pe or 0) + addend and
\* (addend, cap) is (2, 12) for growth < 0.05, (3, 18) for growth < 0.15 and
\* (4, 25) otherwise; hence it never exceeds the cap, and a present industry_pe
\* never raises it above the result for an absent one.
C3_Claim ==
    (fp # None /\ fp.ret # None) =>
        LET g    == GrowthOf(fp.growth)
            add  == IF g < 500 THEN Fix(2) ELSE IF g < 1500 THEN Fix(3) ELSE Fix(4)
            cap  == IF g < 500 THEN Fix(12) ELSE IF g < 1500 THEN Fix(18) ELSE Fix(25)
            base == (IF fp.hist_pe = None THEN 0 ELSE fp.hist_pe[1]) + add
            ind  == IF fp.industry_pe # None THEN fp.industry_pe[1] ELSE base
        IN  /\ fp.ret[1] = Round2(Min(Min(ind, base), cap))
            /\ fp.ret[1] <= cap
            /\ fp.ret[1] <= Round2(Min(base, cap))


----------------------------------------------------------------------------
(* Strings *)

UpperChar(c) ==
    CASE c = "t" -> "T" [] c = "i" -> "I" [] c = "n" -> "N" [] c = "s" -> "S"
      [] c = "e" -> "E" [] c = "p" -> "P" [] c = "r" -> "R" [] c = "l" -> "L"
      [] c = "a" -> "A" [] c = "c" -> "C"
      [] OTHER -> c

\* str.upper()
Upper(s) == [i \in 1..Len(s) |-> UpperChar(s[i])]

\* str.startswith(prefix)
StartsWith(s, prefix) ==
    Len(prefix) <= Len(s) /\ SubSeq(s, 1, Len(prefix)) = prefix

RECURSIVE Contains(_, _)
\* `sub in s`
Contains(s, sub) ==
    IF Len(sub) > Len(s) THEN FALSE
    ELSE StartsWith(s, sub) \/ Contains(Tail(s), sub)

RECURSIVE RemoveSub(_, _)
\* str.replace(sub, '')
RemoveSub(s, sub) ==
    IF s = <<>> THEN <<>>
    ELSE IF StartsWith(s, sub) THEN RemoveSub(SubSeq(s, Len(sub) + 1, Len(s)), sub)
    ELSE <<Head(s)>> \o RemoveSub(Tail(s), sub)

\* `ticker.upper().replace('.NS', '')`
symbol_of(tk) == RemoveSub(Upper(tk), <<".", "N", "S">>)

\* Truthiness of a cached dict (`if cached:`): None and {} are false.
DictTruthy(x) == x # None /\ x[1] # EmptyDict

----------------------------------------------------------------------------
(* fetch_nse_price.  An outcome says how the outbound requests go:          *)
(* prime (the cookie request), first and retry (the quote request's status  *)
(* or "raise" for a network error or timeout) and body (the parsed JSON,    *)
(* None when r.json() raises).                                              *)

TTL_NSE_ERROR == 15

TTL_NSE_OK == 20

NseHome == <<"GET", "nseindia.com">>

NseQuote(tk) == <<"GET", "nseindia.com/api/quote-equity", symbol_of(tk)>>

\* `out` built from the parsed quote
nse_out(data) ==
    LET p   == DictGet(data, "priceInfo")
        ihl == DictGet(p, "intraDayHighLow")
    IN  [market_price  |-> DictGet(p, "lastPrice"),
         open          |-> DictGet(p, "open"),
         dayHigh       |-> DictGet(ihl, "max"),
         dayLow        |-> DictGet(ihl, "min"),
         previousClose |-> DictGet(p, "previousClose"),
         raw           |-> data]

NseException(what) == [error |-> Some(<<"exception", what>>)]

\* `except Exception as e: return {'error': str(e)}`: the cache is not written.
nse_except_CACHE(C, key, what, t) == C

\* The call's result: ret (the dict returned), CACHE (the cache afterwards),
\* out (the outbound requests issued), exc (an exception left the function).
fetch_nse_price(C, t, tk, o) ==
    LET key    == <<"nse_price", tk>>
        cached == cache_get_ret(C, key, t)
        C1     == cache_get_CACHE(C, key, t)
        raised(what, reqs) ==
            [ret |-> NseException(what), CACHE |-> nse_except_CACHE(C1, key, what, t),
             out |-> reqs, exc |-> FALSE]
        status == IF o.first # "200" THEN o.retry ELSE o.first
        reqs   == IF o.first # "200" THEN <<NseHome, NseQuote(tk), NseQuote(tk)>>
                  ELSE <<NseHome, NseQuote(tk)>>
    IN  IF DictTruthy(cached)
          THEN [ret |-> cached[1], CACHE |-> C1, out |-> <<>>, exc |-> FALSE]
        ELSE IF o.prime = "raise" THEN raised("prime", <<NseHome>>)
        ELSE IF o.first = "raise" THEN raised("quote", <<NseHome, NseQuote(tk)>>)
        ELSE IF status = "raise" THEN raised("retry", reqs)
        ELSE IF status # "200"
          THEN LET e == [error |-> Some(<<"NSE status", status>>)] IN
               [ret |-> e, CACHE |-> cache_set(C1, key, e, TTL_NSE_ERROR, t),
                out |-> reqs, exc |-> FALSE]
        ELSE IF o.body = None THEN raised("json", reqs)
        ELSE LET r == nse_out(o.body[1]) IN
             [ret |-> r, CACHE |-> cache_set(C1, key, r, TTL_NSE_OK, t),
              out |-> reqs, exc |-> FALSE]

----------------------------------------------------------------------------
(* fetch_yf.  An outcome is None (the library raises) or Some(info).        *)

TTL_YF_OK == 60

TTL_YF_ERROR == 30

YfCall(tk) == <<"yfinance", tk>>

yf_out(info) ==
    [eps         |-> DictGet(info, "trailingEps"),
     pe          |-> DictGet(info, "trailingPE"),
     forward_eps |-> DictGet(info, "forwardEps"),
     industry_pe |-> DictGet(info, "industryPE"),
     raw_present |-> info # EmptyDict]

YfFailed ==
    [eps |-> None, pe |-> None, forward_eps |-> None, industry_pe |-> None,
     raw_present |-> FALSE]

fetch_yf(C, t, tk, o) ==
    LET key    == <<"yf", tk>>
        cached == cache_get_ret(C, key, t)
        C1     == cache_get_CACHE(C, key, t)
    IN  IF DictTruthy(cached)
          THEN [ret |-> cached[1], CACHE |-> C1, out |-> <<>>, exc |-> FALSE]
        ELSE IF o = None
          THEN [ret |-> YfFailed, CACHE |-> cache_set(C1, key, YfFailed, TTL_YF_ERROR, t),
                out |-> <<YfCall(tk)>>, exc |-> FALSE]
        ELSE LET r == yf_out(o[1]) IN
             [ret |-> r, CACHE |-> cache_set(C1, key, r, TTL_YF_OK, t),
              out |-> <<YfCall(tk)>>, exc |-> FALSE]

----------------------------------------------------------------------------
(* fetch_screener.  An outcome is the response status ("raise" for a       *)
(* network error) and the page: None when parsing it raises, else its      *)
(* snapshot table's rows (each a sequence of cell texts) and the group the *)
(* free-text regular expression, as written, matches in the page text.     *)

TTL_SC_STATUS == 60

TTL_SC_OK == 120

ScRequest(tk) == <<"GET", "screener.in/company", symbol_of(tk)>>

ScFailed == [eps |-> None, pe |-> None, industry_pe |-> None]

RECURSIVE FirstValue(_, _)
\* The value cell of the first row of at least two cells whose label,
\* upper-cased, contains `word`; None when there is none.
FirstValue(rows, word) ==
    IF rows = <<>> THEN None
    ELSE LET tds == Head(rows) IN
         IF Len(tds) >= 2 /\ Contains(Upper(Strip(tds[1])), word)
         THEN Txt(Strip(tds[2]))
         ELSE FirstValue(Tail(rows), word)

\* `if not pe_val:` then the regular expression's group, if it matches
pe_val_of(page) ==
    LET pe_val == FirstValue(page.rows, <<"P", "/", "E">>) IN
    IF pe_val = None \/ pe_val[1].txt = <<>>
    THEN (IF page.regex # None THEN page.regex ELSE pe_val)
    ELSE pe_val

sc_out(page) ==
    [eps         |-> to_float(FirstValue(page.rows, <<"E", "P", "S">>)),
     pe          |-> to_float(pe_val_of(page)),
     industry_pe |-> None]

\* Mutant: the exception is not caught.
sc_except_propagates(C, tk) ==
    [ret |-> ScFailed, CACHE |-> C, out |-> <<ScRequest(tk)>>, exc |-> TRUE]

\* `except Exception: return {...}`: nothing cached, nothing raised.
sc_except(C, tk) ==
    [ret |-> ScFailed, CACHE |-> C, out |-> <<ScRequest(tk)>>, exc |-> FALSE]

fetch_screener(C, t, tk, o) ==
    LET key    == <<"sc", tk>>
        cached == cache_get_ret(C, key, t)
        C1     == cache_get_CACHE(C, key, t)
    IN  IF DictTruthy(cached)
          THEN [ret |-> cached[1], CACHE |-> C1, out |-> <<>>, exc |-> FALSE]
        ELSE IF o.status = "raise" THEN sc_except(C1, tk)
        ELSE IF o.status # "200"
          THEN [ret |-> ScFailed, CACHE |-> cache_set(C1, key, ScFailed, TTL_SC_STATUS, t),
                out |-> <<ScRequest(tk)>>, exc |-> FALSE]
        ELSE IF o.page = None THEN sc_except(C1, tk)
        ELSE LET r == sc_out(o.page[1]) IN
             [ret |-> r, CACHE |-> cache_set(C1, key, r, TTL_SC_OK, t),
              out |-> <<ScRequest(tk)>>, exc |-> FALSE]

----------------------------------------------------------------------------
(* The valuation of /query: merge, fair P/E, thresholds, decision *)

EXPECTED_GROWTH == 1000

MOS == 3000

\* `to_float(nse.get('market_price'))`
market_price_of(nse_) == to_float(DictGet(nse_, "market_price"))

\* Mutant: the price provider's error descriptor is never surfaced.
nse_err_dropped(nse_) == None

\* `nse.get('error') if ... 'error' in nse else None`
nse_err_of(nse_) == IF "error" \in DOMAIN nse_ THEN DictGet(nse_, "error") ELSE None

\* Mutant: `primary or fallback`, which lets a primary 0 fall through.
coalesce_truthy(primary, fallback) == IF Truthy(primary) THEN primary ELSE fallback

\* `primary if primary is not None else fallback`
coalesce(primary, fallback) == IF primary # None THEN primary ELSE fallback

\* eps * (1 + expected_growth); exact for an eps of at most two decimals
forward_eps_of(eps) == (eps \div 100) * ((One + EXPECTED_GROWTH) \div 100)

\* forward_eps * fair_pe; exact, fair_pe being rounded to two decimals
intrinsic_value_of(forward_eps, fair_pe) == (forward_eps * (fair_pe \div 100)) \div 100

\* Mutant: the margin of safety is added instead of subtracted.
buy_price_above(intrinsic_value) == (intrinsic_value * ((One + MOS) \div 1000)) \div 10

\* intrinsic_value * (1 - mos)
buy_price_of(intrinsic_value) == (intrinsic_value * ((One - MOS) \div 1000)) \div 10

\* intrinsic_value * (1 + mos)
sell_price_of(intrinsic_value) == (intrinsic_value * ((One + MOS) \div 1000)) \div 10

\* Mutant: the SELL threshold is tested before the BUY threshold.
decision_sell_first(market_price, buy_price, sell_price) ==
    IF market_price = None THEN "UNKNOWN"
    ELSE IF market_price[1] >= sell_price THEN "SELL"
    ELSE IF market_price[1] <= buy_price THEN "BUY"
    ELSE "HOLD"

\* The decision for a present eps.
decision_of(market_price, buy_price, sell_price) ==
    IF market_price = None THEN "UNKNOWN"
    ELSE IF market_price[1] <= buy_price THEN "BUY"
    ELSE IF market_price[1] >= sell_price THEN "SELL"
    ELSE "HOLD"

\* The locals of query() when it renders the page, from the three records.
valuation(nse_, yf_, sc_) ==
    LET market_price == market_price_of(nse_)
        nse_err      == nse_err_of(nse_)
        eps          == coalesce(DictGet(yf_, "eps"), DictGet(sc_, "eps"))
        pe           == coalesce(DictGet(yf_, "pe"), DictGet(sc_, "pe"))
        industry_pe  == coalesce(DictGet(yf_, "industry_pe"), DictGet(sc_, "industry_pe"))
        fair_pe      == determine_fair_pe(industry_pe, pe, Some(EXPECTED_GROWTH))
        fwd          == forward_eps_of(eps[1])
        iv           == intrinsic_value_of(fwd, fair_pe)
        buy          == buy_price_of(iv)
        sell         == sell_price_of(iv)
    IN  [status          |-> "200",
         market_price    |-> market_price,
         nse_err         |-> nse_err,
         eps             |-> eps,
         pe              |-> pe,
         industry_pe     |-> industry_pe,
         fair_pe         |-> Some(fair_pe),
         forward_eps     |-> IF eps # None THEN Some(fwd) ELSE None,
         intrinsic_value |-> IF eps # None THEN Some(iv) ELSE None,
         buy_price       |-> IF eps # None THEN Some(buy) ELSE None,
         sell_price      |-> IF eps # None THEN Some(sell) ELSE None,
         decision        |-> IF eps # None THEN decision_of(market_price, buy, sell)
                             ELSE "UNKNOWN"]

\* The tail of query(): everything after the three fetches.
Valuate ==
    /\ pc = "valuate"
    /\ result' = Some(valuation(nse, yf, sc))
    /\ pc' = "done"
    /\ UNCHANGED <<cacheVars, ticker, nse, yf, sc, calls, outbound, otherVars>>

----------------------------------------------------------------------------
(* The valuation on its own: every triple of records of the bounded sets   *)

\* What fetch_nse_price can return.
NseRecord(last) ==
    [market_price |-> last, open |-> None, dayHigh |-> None, dayLow |-> None,
     previousClose |-> None, raw |-> None]

PriceInputs ==
    {None, Num(0), Num(Fix(1300)), Num(Fix(1386)), Num(Fix(2000)),
     Num(Fix(2574)), Num(Fix(2600)), Txt(<<"2", ",", "6", "0", "0">>)}

NseInputs ==
    {NseRecord(p) : p \in PriceInputs} \cup {[error |-> Some(<<"NSE status", "403">>)]}

\* What fetch_yf can return.
YfInputs ==
    [eps : {None, Some(0), Some(Fix(100)), Some(Fix(0 - 2))},
     pe : {None, Some(0), Some(Fix(15)), Some(150040)},
     forward_eps : {None},
     industry_pe : {None, Some(0), Some(Fix(12))},
     raw_present : {TRUE}]

\* What fetch_screener can return.
ScInputs ==
    [eps : {None, Some(0), Some(Fix(3))},
     pe : {None, Some(Fix(20))},
     industry_pe : {None}]

InitVal ==
    /\ CACHE = EmptyDict /\ now = 0 /\ lastSet = None /\ lastGet = None
    /\ pc = "valuate" /\ ticker = <<"T", ".", "N", "S">>
    /\ nse \in NseInputs /\ yf \in YfInputs /\ sc \in ScInputs
    /\ result = None
    /\ calls = <<"fetch_nse_price", "fetch_yf", "fetch_screener">>
    /\ outbound = <<>>
    /\ IdleOthers

NextVal == Valuate

SpecVal == InitVal /\ [][NextVal]_vars

Rendered == pc = "done" /\ result # None /\ "decision" \in DOMAIN result[1]

\* C2: for each field of {eps, trailing_pe, industry_pe} independently, the
\* value the valuation uses is the primary provider's value when it is not
\* null, otherwise the fallback provider's, otherwise absent; a primary 0 is
\* kept.
C2_Merge ==
    Rendered =>
        \A f \in {"eps", "pe", "industry_pe"} :
            /\ yf[f] # None => result[1][f] = yf[f]
            /\ (yf[f] = None /\ sc[f] # None) => result[1][f] = sc[f]
            /\ (yf[f] = None /\ sc[f] = None) => result[1][f] = None

\* A valuation that kept a primary eps of 0 although the fallback had another
\* value, and filled the absent primary P/E from the fallback.
C2_Witness ==
    /\ Rendered
    /\ yf.eps = Some(0) /\ sc.eps = Some(Fix(3)) /\ result[1].eps = Some(0)
    /\ yf.pe = None /\ result[1].pe = Some(Fix(20))

\* C4: the decision is UNKNOWN exactly when eps or market_price is absent
\* (with eps absent, forward_eps, intrinsic_value, buy_price and sell_price
\* are absent too); otherwise BUY when market_price <= buy_price, SELL when
\* market_price > buy_price and market_price >= sell_price, HOLD in every
\* remaining case.
C4_Decision ==
    Rendered =>
        LET r == result[1] IN
        /\ r.eps = None =>
              /\ r.forward_eps = None /\ r.intrinsic_value = None
              /\ r.buy_price = None /\ r.sell_price = None
        /\ r.eps # None =>
              /\ r.forward_eps # None /\ r.intrinsic_value # None
              /\ r.buy_price # None /\ r.sell_price # None
        /\ (r.decision = "UNKNOWN") <=> (r.eps = None \/ r.market_price = None)
        /\ (r.eps # None /\ r.market_price # None) =>
              LET mp == r.market_price[1] IN
              /\ (r.decision = "BUY") <=> (mp <= r.buy_price[1])
              /\ (r.decision = "SELL") <=> (mp > r.buy_price[1] /\ mp >= r.sell_price[1])
              /\ (r.decision = "HOLD") <=> (mp > r.buy_price[1] /\ mp < r.sell_price[1])

\* A valuation whose market price meets both thresholds and which decided BUY.
C4_Witness ==
    /\ Rendered
    /\ result[1].eps # None /\ result[1].market_price # None
    /\ result[1].market_price[1] <= result[1].buy_price[1]
    /\ result[1].market_price[1] >= result[1].sell_price[1]
    /\ result[1].decision = "BUY"

\* C10 (as stated): wherever eps is present (zero and negative values
\* included), buy_price <= intrinsic_value <= sell_price, and buy_price equals
\* sell_price only when intrinsic_value is 0.
C10_Original ==
    (Rendered /\ result[1].eps # None) =>
        LET r == result[1] IN
        /\ r.buy_price[1] <= r.intrinsic_value[1]
        /\ r.intrinsic_value[1] <= r.sell_price[1]
        /\ (r.buy_price[1] = r.sell_price[1]) => r.intrinsic_value[1] = 0
        /\ \A p \in PriceInputs :
              LET mp == to_float(p) IN
              (mp # None /\ mp[1] <= r.buy_price[1] /\ mp[1] >= r.sell_price[1])
                  => (r.buy_price[1] = r.sell_price[1] /\ r.intrinsic_value[1] = 0)

\* C10 (amended): wherever eps is present and intrinsic_value >= 0,
\* buy_price <= intrinsic_value <= sell_price, and there a market price can
\* meet both the BUY and the SELL condition only when buy_price = sell_price,
\* that is only when intrinsic_value = 0; for a negative intrinsic_value (a
\* negative eps) the order is reversed: sell_price < intrinsic_value <
\* buy_price.
C10_Amended ==
    (Rendered /\ result[1].eps # None) =>
        LET r  == result[1]
            iv == r.intrinsic_value[1]
        IN  /\ iv >= 0 =>
                /\ r.buy_price[1] <= iv /\ iv <= r.sell_price[1]
                /\ (r.buy_price[1] = r.sell_price[1]) <=> (iv = 0)
                /\ \A p \in PriceInputs :
                      LET mp == to_float(p) IN
                      (mp # None /\ mp[1] <= r.buy_price[1] /\ mp[1] >= r.sell_price[1])
                          => (r.buy_price[1] = r.sell_price[1] /\ iv = 0)
            /\ iv < 0 => (r.sell_price[1] < iv /\ iv < r.buy_price[1])

\* The spec's worked example: eps 100, trailing P/E 15, no industry P/E:
\* intrinsic value 1980, buy at 1386, sell at 2574.
C10_Witness ==
    /\ Rendered
    /\ result[1].eps = Some(Fix(100))
    /\ result[1].pe = Some(Fix(15))
    /\ result[1].fair_pe = Some(Fix(18))
    /\ result[1].intrinsic_value = Some(Fix(1980))
    /\ result[1].buy_price = Some(Fix(1386))
    /\ result[1].sell_price = Some(Fix(2574))


----------------------------------------------------------------------------
(* /query, one request at a time: the three fetches in order, the clock    *)
(* free to advance between them, then the valuation.                       *)

TickerParams ==
    {<<>>, <<" ">>, <<" ", "t", ".", "n", "s">>, <<"T", ".", "N", "S">>}

QuoteOf(last) ==
    [priceInfo |-> [lastPrice |-> last, open |-> last, previousClose |-> last,
                    intraDayHighLow |-> [max |-> last, min |-> last]]]

NseBodies ==
    {None,
     Some(QuoteOf(Num(Fix(1300)))),
     Some(QuoteOf(Txt(<<"Rs.", "2", ",", "6", "0", "0", " ", "x">>))),
     Some(EmptyDict)}

NseOutcomes ==
    [prime : {"ok", "raise"}, first : {"200", "403", "raise"},
     retry : {"200", "403", "raise"}, body : NseBodies]

YfOutcomes ==
    {None,
     Some(EmptyDict),
     Some([trailingEps |-> Some(Fix(100)), trailingPE |-> Some(Fix(15))]),
     Some([trailingEps |-> Some(0), industryPE |-> Some(Fix(12))])}

ScPages ==
    {None,
     Some([rows  |-> << <<<<"E", "P", "S">>, <<"3">>>>,
                        <<<<"S", "t", "o", "c", "k", " ", "P", "/", "E">>, <<" ", "2", "0">>>> >>,
           regex |-> None]),
     Some([rows  |-> << <<<<"C", "a", "p">>>>,
                        <<<<"e", "p", "s">>, <<>>>>,
                        <<<<"E", "P", "S">>, <<"3">>>> >>,
           regex |-> None]),
     Some([rows  |-> <<>>, regex |-> Txt(<<"2", "0", ".", "5">>)])}

ScOutcomes == [status : {"200", "404", "raise"}, page : ScPages]

InternalServerError == Some([status |-> "500"])

NoTickerProvided == Some([status |-> "200", body |-> "No ticker provided"])

Init ==
    /\ CACHE = EmptyDict /\ now = 0 /\ lastSet = None /\ lastGet = None
    /\ IdleRequest
    /\ IdleOthers

\* `ticker = request.args.get('ticker', '').upper().strip()` and the early return
QueryStart ==
    /\ pc \in {"idle", "done"}
    /\ \E raw \in TickerParams :
          /\ ticker' = Strip(Upper(raw))
          /\ IF ticker' = <<>>
             THEN pc' = "done" /\ result' = NoTickerProvided
             ELSE pc' = "nse" /\ result' = None
    /\ nse' = None /\ yf' = None /\ sc' = None
    /\ calls' = <<>> /\ outbound' = <<>>
    /\ UNCHANGED <<cacheVars, otherVars>>

\* `nse = fetch_nse_price(ticker)`
FetchNsePrice ==
    /\ pc = "nse"
    /\ \E o \in NseOutcomes :
          LET r == fetch_nse_price(CACHE, now, ticker, o) IN
          /\ CACHE' = r.CACHE
          /\ outbound' = outbound \o r.out
          /\ IF r.exc
             THEN pc' = "done" /\ result' = InternalServerError /\ nse' = nse
             ELSE pc' = "yf" /\ result' = result /\ nse' = r.ret
    /\ calls' = Append(calls, "fetch_nse_price")
    /\ UNCHANGED <<now, lastSet, lastGet, ticker, yf, sc, otherVars>>

\* `yf = fetch_yf(ticker)`
FetchYf ==
    /\ pc = "yf"
    /\ \E o \in YfOutcomes :
          LET r == fetch_yf(CACHE, now, ticker, o) IN
          /\ CACHE' = r.CACHE
          /\ outbound' = outbound \o r.out
          /\ IF r.exc
             THEN pc' = "done" /\ result' = InternalServerError /\ yf' = yf
             ELSE pc' = "sc" /\ result' = result /\ yf' = r.ret
    /\ calls' = Append(calls, "fetch_yf")
    /\ UNCHANGED <<now, lastSet, lastGet, ticker, nse, sc, otherVars>>

\* `sc = fetch_screener(ticker)`
FetchScreener ==
    /\ pc = "sc"
    /\ \E o \in ScOutcomes :
          LET r == fetch_screener(CACHE, now, ticker, o) IN
          /\ CACHE' = r.CACHE
          /\ outbound' = outbound \o r.out
          /\ IF r.exc
             THEN pc' = "done" /\ result' = InternalServerError /\ sc' = sc
             ELSE pc' = "valuate" /\ result' = result /\ sc' = r.ret
    /\ calls' = Append(calls, "fetch_screener")
    /\ UNCHANGED <<now, lastSet, lastGet, ticker, nse, yf, otherVars>>

Next == QueryStart \/ FetchNsePrice \/ FetchYf \/ FetchScreener \/ Valuate \/ Tick

Spec == Init /\ [][Next]_vars


RangeOf(q) == {q[i] : i \in 1..Len(q)}

FetchOrder == <<"fetch_nse_price", "fetch_yf", "fetch_screener">>

C7_Degrades ==
    /\ Len(calls) <= Len(FetchOrder) /\ calls = SubSeq(FetchOrder, 1, Len(calls))
    /\ result # InternalServerError
    /\ (pc = "done" /\ ticker # <<>>) =>
          /\ Rendered
          /\ result[1].status = "200"
          /\ calls = FetchOrder
          /\ "error" \in DOMAIN nse =>
                result[1].market_price = None /\ result[1].decision = "UNKNOWN"
          /\ \A f \in {"eps", "pe", "industry_pe"} :
                (yf[f] = None /\ sc[f] = None) => result[1][f] = None
          /\ (yf.eps = None /\ sc.eps = None) =>
                /\ result[1].forward_eps = None /\ result[1].intrinsic_value = None
                /\ result[1].buy_price = None /\ result[1].sell_price = None
                /\ result[1].decision = "UNKNOWN"

\* A rendered response after all three providers failed by exception, the
\* fallback consulted although nothing was cached.
C7_Witness ==
    /\ Rendered
    /\ "error" \in DOMAIN nse /\ nse.error[1][1] = "exception"
    /\ yf = YfFailed /\ sc = ScFailed
    /\ outbound = <<NseHome, YfCall(ticker), ScRequest(ticker)>>
    /\ result[1].decision = "UNKNOWN"

\* C8: for each of the three providers, once a fetch that missed the cache
\* has returned, succeeded or failed, the cache holds an entry for the
\* provider's key for the ticker with the result returned (which a second
\* fetch before its expiry returns without an outbound request).
C8_Claim ==
    /\ (pc \in {"yf", "sc", "valuate", "done"} /\ NseHome \in RangeOf(outbound)) =>
          /\ <<"nse_price", ticker>> \in DOMAIN CACHE
          /\ CACHE[<<"nse_price", ticker>>][1] = nse
    /\ (pc \in {"sc", "valuate", "done"} /\ YfCall(ticker) \in RangeOf(outbound)) =>
          /\ <<"yf", ticker>> \in DOMAIN CACHE
          /\ CACHE[<<"yf", ticker>>][1] = yf
    /\ (pc \in {"valuate", "done"} /\ ScRequest(ticker) \in RangeOf(outbound)) =>
          /\ <<"sc", ticker>> \in DOMAIN CACHE
          /\ CACHE[<<"sc", ticker>>][1] = sc


----------------------------------------------------------------------------
(* Concurrent requests (the development server serves each request on its  *)
(* own thread): two threads in fetch_yf for the same ticker, pre-empted     *)
(* between any two steps of cache_get and cache_set.  A thread's steps:     *)
(*   read   row = CACHE.get(key)                                            *)
(*   check  `if not row` and `datetime.utcnow() > expires`                  *)
(*   del    del CACHE[key]                                                  *)
(*   call   the yfinance lookup, after a miss                               *)
(*   set    cache_set(key, out, ttl)                                        *)

Threads == {1, 2}

ConcTicker == <<"T", ".", "N", "S">>

ConcKey == <<"yf", ConcTicker>>

IdleThread == [pc |-> "idle", row |-> None, ret |-> None, ttl |-> 0]

InitConc ==
    /\ CACHE = EmptyDict /\ now = 0 /\ lastSet = None /\ lastGet = None
    /\ IdleRequest
    /\ fp = None /\ NSE_TICKERS = <<>> /\ search = None
    /\ th = [t \in Threads |-> IdleThread]

ConcUnchanged == <<lastGet, requestVars, fp, NSE_TICKERS, search>>

\* A request enters fetch_yf.
ThreadStart(t) ==
    /\ th[t].pc \in {"idle", "returned"}
    /\ th' = [th EXCEPT ![t] = [IdleThread EXCEPT !.pc = "read"]]
    /\ UNCHANGED <<CACHE, now, lastSet, ConcUnchanged>>

\* `row = CACHE.get(key)`
ThreadRead(t) ==
    /\ th[t].pc = "read"
    /\ th' = [th EXCEPT ![t].row = DictGet(CACHE, ConcKey), ![t].pc = "check"]
    /\ UNCHANGED <<CACHE, now, lastSet, ConcUnchanged>>

\* `if not row: return None`, `if datetime.utcnow() > expires:`, `return val`
ThreadCheck(t) ==
    /\ th[t].pc = "check"
    /\ th' = [th EXCEPT ![t].pc =
                  IF th[t].row = None THEN "call"
                  ELSE IF expired(now, th[t].row[2]) THEN "del"
                  ELSE "returned",
              ![t].ret =
                  IF th[t].row # None /\ ~expired(now, th[t].row[2])
                  THEN Some(th[t].row[1]) ELSE None]
    /\ UNCHANGED <<CACHE, now, lastSet, ConcUnchanged>>

\* `del CACHE[key]`: KeyError when the key is gone; cache_get is called
\* outside fetch_yf's try, so the error leaves fetch_yf.
ThreadDel(t) ==
    /\ th[t].pc = "del"
    /\ IF ConcKey \in DOMAIN CACHE
       THEN /\ CACHE' = DictDel(CACHE, ConcKey)
            /\ th' = [th EXCEPT ![t].pc = "call"]
       ELSE /\ CACHE' = CACHE
            /\ th' = [th EXCEPT ![t].pc = "KeyError"]
    /\ UNCHANGED <<now, lastSet, ConcUnchanged>>

\* The yfinance lookup and the building of `out`.
ThreadCall(t) ==
    /\ th[t].pc = "call"
    /\ \E o \in YfOutcomes :
          th' = [th EXCEPT ![t].pc = "set",
                           ![t].ret = Some(IF o = None THEN YfFailed ELSE yf_out(o[1])),
                           ![t].ttl = IF o = None THEN TTL_YF_ERROR ELSE TTL_YF_OK]
    /\ UNCHANGED <<CACHE, now, lastSet, ConcUnchanged>>

\* `cache_set(key, out, ttl=...)` and `return out`
ThreadSet(t) ==
    /\ th[t].pc = "set"
    /\ CACHE' = cache_set(CACHE, ConcKey, th[t].ret[1], th[t].ttl, now)
    /\ lastSet' = [val |-> th[t].ret[1], at |-> now, ttl |-> th[t].ttl]
    /\ th' = [th EXCEPT ![t].pc = "returned"]
    /\ UNCHANGED <<now, ConcUnchanged>>

TickConc ==
    /\ now + TickStep <= MaxTime
    /\ now' = now + TickStep
    /\ UNCHANGED <<CACHE, lastSet, th, ConcUnchanged>>

NextConc ==
    \/ \E t \in Threads :
          \/ ThreadStart(t) \/ ThreadRead(t) \/ ThreadCheck(t)
          \/ ThreadDel(t) \/ ThreadCall(t) \/ ThreadSet(t)
    \/ TickConc

SpecConc == InitConc /\ [][NextConc]_vars

\* C9: with requests pre-empted between any two steps of cache_get and
\* cache_set on the same key, cache_get never fails, and an entry written by
\* cache_set stays in the cache until its own expiry: an expiry-driven
\* eviction never removes an unexpired entry written after the evicting
\* cache_get read the old one.
C9_Claim ==
    /\ \A t \in Threads : th[t].pc # "KeyError"
    /\ (lastSet # None /\ now < lastSet.at + lastSet.ttl) =>
          DictGet(CACHE, ConcKey) = <<lastSet.val, lastSet.at + lastSet.ttl>>


----------------------------------------------------------------------------
(* The ticker directory and /search_api *)

SEARCH_CAP == 25

RECURSIVE load_lines(_)
\* `[ln.strip().upper() for ln in f if ln.strip()]`
load_lines(lines) ==
    IF lines = <<>> THEN <<>>
    ELSE IF Strip(Head(lines)) = <<>> THEN load_lines(Tail(lines))
    ELSE <<Upper(Strip(Head(lines)))>> \o load_lines(Tail(lines))

\* load_nse_list: `file` is None when nse_list.txt does not exist.
load_nse_list(file) == IF file = None THEN <<>> ELSE load_lines(file[1])

RECURSIVE matches_of(_, _)
\* `[s for s in NSE_TICKERS if s.startswith(q)]`
matches_of(tickers, q) ==
    IF tickers = <<>> THEN <<>>
    ELSE IF StartsWith(Head(tickers), q) THEN <<Head(tickers)>> \o matches_of(Tail(tickers), q)
    ELSE matches_of(Tail(tickers), q)

\* Mutant: the slice keeps one entry too few.
truncate_short(matches) == SubSeq(matches, 1, Min(Len(matches), SEARCH_CAP - 1))

\* `matches[:25]`
truncate(matches) == SubSeq(matches, 1, Min(Len(matches), SEARCH_CAP))

\* The JSON array search_api answers for the raw `query` parameter.
search_api(tickers, query) ==
    LET q == Strip(Upper(query)) IN
    IF q = <<>> THEN <<>> ELSE truncate(matches_of(tickers, q))

\* Line i of the list files of the model: "r" or "t" and two letters, in
\* mixed case, some padded with blanks, every seventh line blank.
SearchLetters == <<"a", "c", "e", "l", "n", "s">>

FileLine(i) ==
    LET body == <<IF i % 5 = 0 THEN "t" ELSE "r",
                  SearchLetters[((i \div 6) % 6) + 1],
                  SearchLetters[(i % 6) + 1]>>
        text == IF i % 2 = 0 THEN Upper(body) ELSE body
    IN  IF i % 7 = 0 THEN <<" ", "\n">>
        ELSE IF i % 3 = 0 THEN <<" ">> \o text \o <<" ", "\n">>
        ELSE text \o <<"\n">>

Files == {None} \cup {Some([i \in 1..n |-> FileLine(i)]) : n \in 0..MaxLines}

Queries ==
    {<<>>, <<" ">>, <<"r">>, <<"R">>, <<" ", "r", " ">>, <<"R", "a">>, <<"t">>,
     <<"A">>, <<"R", "A", "C", "E">>, <<"r", " ">>}

InitSearch ==
    /\ CACHE = EmptyDict /\ now = 0 /\ lastSet = None /\ lastGet = None
    /\ IdleRequest
    /\ fp = None /\ th = None
    /\ \E file \in Files : NSE_TICKERS = load_nse_list(file)
    /\ search = None

SearchApi ==
    /\ \E query \in Queries :
          search' = [query |-> query, matches |-> search_api(NSE_TICKERS, query)]
    /\ UNCHANGED <<cacheVars, requestVars, fp, th, NSE_TICKERS>>

NextSearch == SearchApi

SpecSearch == InitSearch /\ [][NextSearch]_vars

\* C6 (as stated): for every query prefix P and directory entry T, T is
\* returned if and only if T starts with P compared case-insensitively; the
\* response has at most 25 entries and is empty for an empty or
\* whitespace-only query.
C6_Original ==
    search # None =>
        /\ \A i \in 1..Len(NSE_TICKERS) :
              (NSE_TICKERS[i] \in RangeOf(search.matches))
                  <=> StartsWith(Upper(NSE_TICKERS[i]), Upper(search.query))
        /\ Len(search.matches) <= 25
        /\ Strip(search.query) = <<>> => search.matches = <<>>

\* The positions of the directory whose entry starts with q.
MatchingPositions(q) == {i \in 1..Len(NSE_TICKERS) : StartsWith(NSE_TICKERS[i], q)}

\* C6 (amended): with Q the query stripped of surrounding whitespace and
\* upper-cased, the response is empty when Q is empty; otherwise the entry at
\* directory position i is returned if and only if it starts with Q and fewer
\* than 25 earlier entries start with Q, the response keeps the load order and
\* has at most 25 entries.
C6_Amended ==
    search # None =>
        LET q   == Strip(Upper(search.query))
            pos == MatchingPositions(q)
            kept == {i \in pos : Cardinality({k \in pos : k < i}) < 25}
        IN  /\ q = <<>> => search.matches = <<>>
            /\ q # <<>> =>
                  /\ Len(search.matches) = Cardinality(kept)
                  /\ \A i \in kept :
                        search.matches[Cardinality({k \in pos : k < i}) + 1] = NSE_TICKERS[i]
            /\ Len(search.matches) <= 25

\* A padded lower-case query answered with exactly 25 entries although more
\* directory entries start with it.
C6_Witness ==
    /\ search # None
    /\ search.query = <<" ", "r", " ">>
    /\ Len(search.matches) = 25
    /\ Cardinality(MatchingPositions(<<"R">>)) > 25

=============================================================================
